---- MODULE Spec2Model ----
(***************************************************************************)
(* Model of 6.generate-oncoprint-data.ipynb: the presence-matrix builder   *)
(* process_variants, the feature list paad_genes it is called with, and    *)
(* the caller that writes the returned matrix with to_csv.                 *)
(*                                                                         *)
(* Strings that the code takes apart (file names, strip_text, sample ids)  *)
(* are sequences of one-character strings; values that are only compared   *)
(* for equality (gene names, COSMIC ids, the 'MUT;' marker) are TLA+        *)
(* strings; the cells of a COSMIC matrix are the integers 0 and 1.         *)
(***************************************************************************)
EXTENDS Integers, Sequences, FiniteSets, TLC

VARIABLES
    variant_dir,      \* the directory: file name -> file content
    focus_variants,   \* the feature list, in its iteration order
    focus_is_set,     \* TRUE when the caller passes a set (unique_cosmic_ids)
    strip_text,
    process_cosmic,
    id_updater,       \* [is_none, dict]
    listing,          \* the files os.listdir returned that the loop has yet to visit
    variant_assign,
    case_ids,
    output_df,        \* the returned DataFrame: [columns, rows], a row is [id, vals]
    disk,             \* the output file: [written, header, rows]
    pc,
    cosmic_all_df,    \* Gene.refGene column of the aggregate table
    paad_genes,
    cosmic_all_cosmic70,   \* cosmic70 column of the aggregate table: [present, values]
    unique_cosmic_ids,     \* the set of cell 6, in its iteration order
    replicate_dir,         \* results/processed_vcfs
    merged_dir,            \* results/processed_merged_vcfs
    cell,                  \* the code cell whose process_variants call is running
    results,               \* the output files of the script: name -> [written, header, rows]
    prefiltered_file,      \* results/all_cosmic_prefiltered_variants.tsv
    cosmic_prefiltered_df, \* [columns, rows]
    unique_mutations,      \* the set of cell 12, in its iteration order
    consensus_todo,        \* the sample ids the loop of cell 13 has yet to visit
    case_id_consensus,
    cosmic_similarity_consensus_list,
    cosmic_common_consensus_df

vars == <<variant_dir, focus_variants, focus_is_set, strip_text, process_cosmic,
          id_updater, listing, variant_assign, case_ids, output_df, disk, pc,
          cosmic_all_df, paad_genes, cosmic_all_cosmic70, unique_cosmic_ids,
          replicate_dir, merged_dir, cell, results, prefiltered_file,
          cosmic_prefiltered_df, unique_mutations, consensus_todo, case_id_consensus,
          cosmic_similarity_consensus_list, cosmic_common_consensus_df>>

\* what the cells after cell 4 read and write
adhoc == <<prefiltered_file, cosmic_prefiltered_df, unique_mutations, consensus_todo,
           case_id_consensus, cosmic_similarity_consensus_list,
           cosmic_common_consensus_df>>

script == <<cosmic_all_cosmic70, unique_cosmic_ids, replicate_dir, merged_dir, cell,
            results, adhoc>>

inputs == <<variant_dir, focus_variants, focus_is_set, strip_text,
            process_cosmic, id_updater>>

----------------------------------------------------------------------------
(* Bounds *)

MaxFiles == 2
MaxRows == 1
MaxFeatures == 2
MaxAggRows == 3
MaxAARows == 3
\* the script's top_n (50), scaled down
top_n == 1

----------------------------------------------------------------------------
(* Python str operations *)

Ord(c) ==
    CASE c = "1" -> 49
      [] c = "A" -> 65
      [] c = "B" -> 66
      [] c = "C" -> 67
      [] c = "_" -> 95
      [] c = "v" -> 118

startswith(s, p) == Len(p) <= Len(s) /\ SubSeq(s, 1, Len(p)) = p

RECURSIVE replace(_, _, _)
\* s.replace(old, new): every non-overlapping occurrence, left to right
replace(s, old, new) ==
    IF old = <<>>
    THEN IF s = <<>> THEN new
         ELSE new \o <<Head(s)>> \o replace(Tail(s), old, new)
    ELSE IF s = <<>> THEN <<>>
    ELSE IF startswith(s, old)
         THEN new \o replace(SubSeq(s, Len(old) + 1, Len(s)), old, new)
         ELSE <<Head(s)>> \o replace(Tail(s), old, new)

RECURSIVE split_first(_)
\* s.split('_')[0]
split_first(s) ==
    IF s = <<>> \/ Head(s) = "_" THEN <<>>
    ELSE <<Head(s)>> \o split_first(Tail(s))

RECURSIVE str_lt(_, _)
\* s < t on Python strings (code point order)
str_lt(s, t) ==
    IF t = <<>> THEN FALSE
    ELSE IF s = <<>> THEN TRUE
    ELSE IF Head(s) = Head(t) THEN str_lt(Tail(s), Tail(t))
    ELSE Ord(Head(s)) < Ord(Head(t))

str_le(s, t) == s = t \/ str_lt(s, t)

----------------------------------------------------------------------------
(* process_variants, one pass of the loop body *)

in_list(x, lst) == \E k \in DOMAIN lst : lst[k] = x

column(rows, name) == [k \in DOMAIN rows |-> rows[k][name]]

isNotCosmicRow(r) == r.cosmic70 = "."

isCosmicRow(r) == r.cosmic70 # "."

unfiltered_df(variant_df) == variant_df.rows

\* variant_df[variant_df['cosmic70'] != '.']
variant_sub_df(variant_df) == SelectSeq(variant_df.rows, isCosmicRow)

variant_class_reversed(sub_df, focus, cosmic) ==
    [i \in DOMAIN focus |->
        IF in_list(focus[Len(focus) + 1 - i],
                   column(sub_df, IF cosmic THEN "cosmic70" ELSE "Gene_refGene"))
        THEN (IF cosmic THEN 1 ELSE "MUT;")
        ELSE (IF cosmic THEN 0 ELSE "")]

variant_class(sub_df, focus, cosmic) ==
    IF cosmic
    THEN [i \in DOMAIN focus |->
            IF in_list(focus[i], column(sub_df, "cosmic70")) THEN 1 ELSE 0]
    ELSE [i \in DOMAIN focus |->
            IF in_list(focus[i], column(sub_df, "Gene_refGene")) THEN "MUT;" ELSE ""]

sample_id(variant_file, strip, updater) ==
    IF updater.is_none
    THEN replace(variant_file, strip, <<>>)
    ELSE replace(variant_file, split_first(variant_file),
                 updater.dict[split_first(variant_file)])

raises_unless_unreadable(variant_df, focus, cosmic, variant_file, updater) ==
    \/ "cosmic70" \notin variant_df.columns
    \/ ~cosmic /\ focus # <<>> /\ "Gene_refGene" \notin variant_df.columns
    \/ ~updater.is_none /\ split_first(variant_file) \notin DOMAIN updater.dict

\* The exceptions one pass of the loop body raises: read_table on a malformed
\* or missing file, KeyError on a missing column, KeyError in id_updater
raises(variant_df, focus, cosmic, variant_file, updater) ==
    \/ ~variant_df.readable
    \/ "cosmic70" \notin variant_df.columns
    \/ ~cosmic /\ focus # <<>> /\ "Gene_refGene" \notin variant_df.columns
    \/ ~updater.is_none /\ split_first(variant_file) \notin DOMAIN updater.dict

----------------------------------------------------------------------------
(* DataFrame construction, sort_index, value_counts *)

Range(f) == {f[k] : k \in DOMAIN f}

Perms(S) ==
    {p \in [1..Cardinality(S) -> S] : \A a, b \in DOMAIN p : a # b => p[a] # p[b]}

DataFrame(data, index, columns) ==
    [columns |-> columns,
     rows |-> [k \in DOMAIN index |-> [id |-> index[k], vals |-> data[k]]]]

unsorted_index(df) == {df}

\* The frames sort_index may return: rows move whole, equal labels in any order
sort_index(df) ==
    {[columns |-> df.columns, rows |-> [k \in DOMAIN df.rows |-> df.rows[p[k]]]] :
        p \in {q \in Perms(DOMAIN df.rows) :
                 \A a, b \in DOMAIN df.rows :
                     a < b => str_le(df.rows[q[a]].id, df.rows[q[b]].id)}}

value_counts(col) ==
    [g \in Range(col) |-> Cardinality({k \in DOMAIN col : col[k] = g})]

Min(a, b) == IF a < b THEN a ELSE b

\* col.value_counts().head(n).index.tolist(): the n most frequent values, most
\* frequent first, equal counts in any order
value_counts_head(col, n) ==
    LET counts == value_counts(col)
        m == Min(n, Cardinality(DOMAIN counts))
    IN  {top \in [1..m -> DOMAIN counts] :
            /\ \A a, b \in 1..m : a < b => top[a] # top[b] /\ counts[top[a]] >= counts[top[b]]
            /\ \A g \in DOMAIN counts \ Range(top) :
                   \A a \in 1..m : counts[top[a]] >= counts[g]}

NoFile == [written |-> FALSE, header |-> <<>>, rows |-> <<>>]

EmptyFrame == [columns |-> <<>>, rows |-> <<>>]

None == [is_none |-> TRUE, dict |-> <<>>]

----------------------------------------------------------------------------
(* Actions *)

\* entry of process_variants up to os.listdir
Call ==
    /\ pc = "idle"
    /\ listing' \in Perms(DOMAIN variant_dir)
    /\ variant_assign' = <<>>
    /\ case_ids' = <<>>
    /\ pc' = "loop"
    /\ UNCHANGED script
    /\ UNCHANGED <<inputs, output_df, disk, cosmic_all_df, paad_genes>>

LoopBody_skip_empty ==
    /\ pc = "loop"
    /\ listing # <<>>
    /\ LET variant_file == Head(listing)
           variant_df == variant_dir[variant_file]
       IN  /\ ~raises(variant_df, focus_variants, process_cosmic, variant_file, id_updater)
           /\ IF variant_sub_df(variant_df) = <<>>
              THEN UNCHANGED <<variant_assign, case_ids>>
              ELSE /\ variant_assign' = Append(variant_assign,
                         variant_class(variant_sub_df(variant_df), focus_variants,
                                       process_cosmic))
                   /\ case_ids' = Append(case_ids,
                         sample_id(variant_file, strip_text, id_updater))
    /\ listing' = Tail(listing)
    /\ UNCHANGED script
    /\ UNCHANGED <<inputs, output_df, disk, pc, cosmic_all_df, paad_genes>>

\* one pass of the for loop that raises nothing
LoopBody ==
    /\ pc = "loop"
    /\ listing # <<>>
    /\ LET variant_file == Head(listing)
           variant_df == variant_dir[variant_file]
       IN  /\ ~raises(variant_df, focus_variants, process_cosmic, variant_file, id_updater)
           /\ variant_assign' = Append(variant_assign,
                  variant_class(variant_sub_df(variant_df), focus_variants, process_cosmic))
           /\ case_ids' = Append(case_ids, sample_id(variant_file, strip_text, id_updater))
    /\ listing' = Tail(listing)
    /\ UNCHANGED script
    /\ UNCHANGED <<inputs, output_df, disk, pc, cosmic_all_df, paad_genes>>

\* one pass of the for loop that raises: the error leaves process_variants and
\* the calling cell, whose to_csv is never reached
LoopRaise ==
    /\ pc = "loop"
    /\ listing # <<>>
    /\ raises(variant_dir[Head(listing)], focus_variants, process_cosmic,
              Head(listing), id_updater)
    /\ pc' = "failed"
    /\ UNCHANGED script
    /\ UNCHANGED <<inputs, listing, variant_assign, case_ids, output_df, disk,
                   cosmic_all_df, paad_genes>>

Return ==
    /\ pc = "loop"
    /\ listing = <<>>
    /\ output_df' \in sort_index(DataFrame(variant_assign, case_ids, focus_variants))
    /\ pc' = "returned"
    /\ UNCHANGED script
    /\ UNCHANGED <<inputs, listing, variant_assign, case_ids, disk,
                   cosmic_all_df, paad_genes>>

\* the caller's to_csv(output_file, sep='\t')
ToCsv ==
    /\ pc = "returned"
    /\ disk' = [written |-> TRUE, header |-> output_df.columns, rows |-> output_df.rows]
    /\ pc' = "written"
    /\ UNCHANGED script
    /\ UNCHANGED <<inputs, listing, variant_assign, case_ids, output_df,
                   cosmic_all_df, paad_genes>>

Next == Call \/ LoopBody \/ LoopRaise \/ Return \/ ToCsv

----------------------------------------------------------------------------
(* Inputs of process_variants *)

Str_v == <<"_", "v">>
Str_A_v == <<"A", "_", "v">>
Str_B_v == <<"B", "_", "v">>
Str_A == <<"A">>
FileNames == {Str_A_v, Str_B_v, Str_A}

RowValues ==
    {[cosmic70 |-> ".", Gene_refGene |-> "ATM"],
     [cosmic70 |-> "COSM1", Gene_refGene |-> "KRAS"]}

SeqsUpTo(S, n) == UNION {[1..k -> S] : k \in 0..n}

AllColumns == {"cosmic70", "Gene_refGene"}

GoodFiles ==
    {[readable |-> TRUE, columns |-> AllColumns, rows |-> t] :
        t \in SeqsUpTo(RowValues, MaxRows)}

\* a file read_table cannot load, one without cosmic70, one without Gene.refGene
BadFiles ==
    {[readable |-> FALSE, columns |-> AllColumns, rows |-> <<>>],
     [readable |-> TRUE, columns |-> {"Gene_refGene"},
      rows |-> <<[Gene_refGene |-> "KRAS"]>>],
     [readable |-> TRUE, columns |-> {"cosmic70"},
      rows |-> <<[cosmic70 |-> "COSM1"]>>]}

Directories(names, files) ==
    UNION {[S -> files] : S \in {T \in SUBSET names : Cardinality(T) <= MaxFiles}}

GeneFeatures == {"KRAS", "ATM"}
CosmicFeatures == {"COSM1", "COSM2"}

OutputFiles ==
    {"oncoprint_replicates", "oncoprint_merged", "cosmic_similarity_replicates",
     "cosmic_similarity_merged", "cosmic_prefiltered_similarity_merged"}

NoTable == [readable |-> FALSE, columns |-> {}, rows |-> <<>>]

\* nothing of the later cells has run
NoAdhoc ==
    /\ cosmic_prefiltered_df = [columns |-> {}, rows |-> <<>>]
    /\ unique_mutations = <<>>
    /\ consensus_todo = <<>>
    /\ case_id_consensus = <<>>
    /\ cosmic_similarity_consensus_list = <<>>
    /\ cosmic_common_consensus_df = EmptyFrame

NoScript ==
    /\ cosmic_all_cosmic70 = [present |-> FALSE, values |-> <<>>]
    /\ unique_cosmic_ids = <<>>
    /\ replicate_dir = <<>>
    /\ merged_dir = <<>>
    /\ cell = 4
    /\ results = [f \in OutputFiles |-> NoFile]
    /\ prefiltered_file = NoTable
    /\ NoAdhoc

Idle ==
    /\ NoScript
    /\ listing = <<>>
    /\ variant_assign = <<>>
    /\ case_ids = <<>>
    /\ output_df = EmptyFrame
    /\ disk = NoFile

Init ==
    /\ variant_dir \in Directories(FileNames, GoodFiles \cup BadFiles)
    /\ process_cosmic \in BOOLEAN
    /\ focus_variants \in
          SeqsUpTo(IF process_cosmic THEN CosmicFeatures ELSE GeneFeatures, MaxFeatures)
    /\ focus_is_set = FALSE
    /\ strip_text = Str_v
    /\ id_updater = None
    /\ cosmic_all_df = <<>>
    /\ paad_genes = <<>>
    /\ Idle
    /\ pc = "idle"

Spec == Init /\ [][Next]_vars

----------------------------------------------------------------------------
(* Sample identifiers: strip texts and identifier-remapping tables *)

Str_A_v_v == <<"A", "_", "v", "_", "v">>
Str_C == <<"C">>
IdFileNames == {Str_A_v, Str_B_v, Str_A_v_v}

IdUpdaters ==
    {None,
     [is_none |-> FALSE, dict |-> (<<"A">> :> Str_C)],
     [is_none |-> FALSE, dict |-> (<<"A">> :> Str_C) @@ (<<"B">> :> Str_A)]}

OneRowFiles ==
    {[readable |-> TRUE, columns |-> AllColumns,
      rows |-> <<[cosmic70 |-> "COSM1", Gene_refGene |-> "KRAS"]>>]}

InitIds ==
    /\ variant_dir \in Directories(IdFileNames, OneRowFiles)
    /\ process_cosmic = FALSE
    /\ focus_variants \in SeqsUpTo({"KRAS"}, MaxFeatures)
    /\ focus_is_set = FALSE
    /\ strip_text = Str_v
    /\ id_updater \in IdUpdaters
    /\ cosmic_all_df = <<>>
    /\ paad_genes = <<>>
    /\ Idle
    /\ pc = "idle"

SpecIds == InitIds /\ [][Next]_vars

----------------------------------------------------------------------------
(* Running the builder again on the same inputs *)

\* a new run of the script: the output file of the last run is still there, and
\* a set passed as focus_variants is iterated in the order of the new process
Rerun ==
    /\ pc = "written"
    /\ focus_variants' \in
          IF focus_is_set
          THEN Perms(Range(focus_variants))
          ELSE {focus_variants}
    /\ pc' = "idle"
    /\ UNCHANGED script
    /\ UNCHANGED <<variant_dir, focus_is_set, strip_text, process_cosmic, id_updater,
                   listing, variant_assign, case_ids, output_df, disk,
                   cosmic_all_df, paad_genes>>

NextRerun == Next \/ Rerun

IsSet(s) == \A a, b \in DOMAIN s : a # b => s[a] # s[b]

InitRerun ==
    /\ variant_dir \in Directories(FileNames, GoodFiles \cup BadFiles)
    /\ process_cosmic \in BOOLEAN
    /\ focus_variants \in
          SeqsUpTo(IF process_cosmic THEN CosmicFeatures ELSE GeneFeatures, MaxFeatures)
    /\ focus_is_set \in {b \in BOOLEAN : b => process_cosmic /\ IsSet(focus_variants)}
    /\ strip_text = Str_v
    /\ id_updater = None
    /\ cosmic_all_df = <<>>
    /\ paad_genes = <<>>
    /\ Idle
    /\ pc = "idle"

SpecRerun == InitRerun /\ [][NextRerun]_vars

----------------------------------------------------------------------------
(* The script: the gene feature list and the replicate gene matrix *)

allow_list == <<"ATM", "RNF43">>

\* cell 2: paad_genes
LoadGenes ==
    /\ pc = "start"
    /\ \E top \in value_counts_head(cosmic_all_df, top_n) :
          paad_genes' = top \o allow_list
    /\ pc' = "cell4"
    /\ UNCHANGED script
    /\ UNCHANGED <<inputs, listing, variant_assign, case_ids, output_df, disk,
                   cosmic_all_df>>

\* '_001_processed_variants.tsv.bz2', abbreviated
replicate_strip_text == <<"_", "1", "_", "v">>

\* cell 4: process_variants(replicate_file_path, paad_genes, replicate_strip_text,
\* process_cosmic=False, id_updater=None)
ReplicateCall ==
    /\ pc = "cell4"
    /\ focus_variants' = paad_genes
    /\ focus_is_set' = FALSE
    /\ strip_text' = replicate_strip_text
    /\ process_cosmic' = FALSE
    /\ id_updater' = None
    /\ listing' \in Perms(DOMAIN variant_dir)
    /\ variant_assign' = <<>>
    /\ case_ids' = <<>>
    /\ pc' = "loop"
    /\ UNCHANGED script
    /\ UNCHANGED <<variant_dir, output_df, disk, cosmic_all_df, paad_genes>>

NextScript == LoadGenes \/ ReplicateCall \/ LoopBody \/ LoopRaise \/ Return \/ ToCsv

AggregateGenes == {"KRAS", "ATM", "TP53"}

ReplicateFileNames == {<<"A", "_", "1", "_", "v">>, <<"B", "_", "1", "_", "v">>}

InitScript ==
    /\ cosmic_all_df \in SeqsUpTo(AggregateGenes, MaxAggRows)
    /\ variant_dir \in Directories(ReplicateFileNames, GoodFiles \cup BadFiles)
    /\ focus_variants = <<>>
    /\ focus_is_set = FALSE
    /\ strip_text = <<>>
    /\ process_cosmic = FALSE
    /\ id_updater = None
    /\ paad_genes = <<>>
    /\ Idle
    /\ pc = "start"

SpecScript == InitScript /\ [][NextScript]_vars

----------------------------------------------------------------------------
(* The amino-acid-change pass, cells 9 to 14 *)

anyRow(r) == TRUE

isAAChange(r) == r.AAChange_refGene # "."

\* cosmic_prefiltered_df.query('final_id == @sample_id')
query_final_id(rows, id) ==
    LET isSample(r) == r.final_id = id
    IN  SelectSeq(rows, isSample)

cosmic_class(sub_df, mutations) ==
    [i \in DOMAIN mutations |->
        IF in_list(mutations[i], column(sub_df, "AAChange_refGene")) THEN 1 ELSE 0]

\* the errors of cells 9 to 13: read_table, and KeyError on a missing column
adhoc_raises ==
    \/ pc = "cell9" /\ ~prefiltered_file.readable
    \/ pc = "cell9" /\ "Gene_refGene" \notin prefiltered_file.columns
    \/ pc = "cell11" /\ "AAChange_refGene" \notin cosmic_prefiltered_df.columns
    \/ pc = "cell13" /\ "final_id" \notin cosmic_prefiltered_df.columns

\* cells 9 and 10: read_table and the value_counts of Gene.refGene
LoadPrefiltered ==
    /\ pc = "cell9"
    /\ ~adhoc_raises
    /\ cosmic_prefiltered_df' =
          [columns |-> prefiltered_file.columns, rows |-> prefiltered_file.rows]
    /\ pc' = "cell11"
    /\ UNCHANGED <<cosmic_all_cosmic70, unique_cosmic_ids, replicate_dir, merged_dir,
                   cell, results, prefiltered_file, unique_mutations, consensus_todo,
                   case_id_consensus, cosmic_similarity_consensus_list,
                   cosmic_common_consensus_df>>
    /\ UNCHANGED <<inputs, listing, variant_assign, case_ids, output_df, disk,
                   cosmic_all_df, paad_genes>>

\* cell 11
FilterAAChange ==
    /\ pc = "cell11"
    /\ ~adhoc_raises
    /\ cosmic_prefiltered_df' =
          [cosmic_prefiltered_df EXCEPT !.rows = SelectSeq(@, isAAChange)]
    /\ pc' = "cell12"
    /\ UNCHANGED <<cosmic_all_cosmic70, unique_cosmic_ids, replicate_dir, merged_dir,
                   cell, results, prefiltered_file, unique_mutations, consensus_todo,
                   case_id_consensus, cosmic_similarity_consensus_list,
                   cosmic_common_consensus_df>>
    /\ UNCHANGED <<inputs, listing, variant_assign, case_ids, output_df, disk,
                   cosmic_all_df, paad_genes>>

\* cell 12: the set is iterated in some order, the same one from here on
UniqueMutations ==
    /\ pc = "cell12"
    /\ unique_mutations' \in
          Perms(Range(column(cosmic_prefiltered_df.rows, "AAChange_refGene")))
    /\ pc' = "cell13"
    /\ UNCHANGED <<cosmic_all_cosmic70, unique_cosmic_ids, replicate_dir, merged_dir,
                   cell, results, prefiltered_file, cosmic_prefiltered_df, consensus_todo,
                   case_id_consensus, cosmic_similarity_consensus_list,
                   cosmic_common_consensus_df>>
    /\ UNCHANGED <<inputs, listing, variant_assign, case_ids, output_df, disk,
                   cosmic_all_df, paad_genes>>

\* cell 13 up to the for statement
ConsensusStart ==
    /\ pc = "cell13"
    /\ ~adhoc_raises
    /\ consensus_todo' \in Perms(Range(column(cosmic_prefiltered_df.rows, "final_id")))
    /\ case_id_consensus' = <<>>
    /\ cosmic_similarity_consensus_list' = <<>>
    /\ pc' = "consensus"
    /\ UNCHANGED <<cosmic_all_cosmic70, unique_cosmic_ids, replicate_dir, merged_dir,
                   cell, results, prefiltered_file, cosmic_prefiltered_df,
                   unique_mutations, cosmic_common_consensus_df>>
    /\ UNCHANGED <<inputs, listing, variant_assign, case_ids, output_df, disk,
                   cosmic_all_df, paad_genes>>

\* cell 13, one pass of the loop
ConsensusLoop ==
    /\ pc = "consensus"
    /\ consensus_todo # <<>>
    /\ LET sample == Head(consensus_todo)
           variant_sub == query_final_id(cosmic_prefiltered_df.rows, sample)
       IN  /\ cosmic_similarity_consensus_list' =
                 Append(cosmic_similarity_consensus_list,
                        cosmic_class(variant_sub, unique_mutations))
           /\ case_id_consensus' = Append(case_id_consensus, sample)
    /\ consensus_todo' = Tail(consensus_todo)
    /\ UNCHANGED <<cosmic_all_cosmic70, unique_cosmic_ids, replicate_dir, merged_dir,
                   cell, results, prefiltered_file, cosmic_prefiltered_df,
                   unique_mutations, cosmic_common_consensus_df, pc>>
    /\ UNCHANGED <<inputs, listing, variant_assign, case_ids, output_df, disk,
                   cosmic_all_df, paad_genes>>

\* cell 14: the DataFrame and its to_csv
ConsensusWrite ==
    /\ pc = "consensus"
    /\ consensus_todo = <<>>
    /\ cosmic_common_consensus_df' =
          DataFrame(cosmic_similarity_consensus_list, case_id_consensus, unique_mutations)
    /\ results' =
          [results EXCEPT !["cosmic_prefiltered_similarity_merged"] =
              [written |-> TRUE,
               header |-> cosmic_common_consensus_df'.columns,
               rows |-> cosmic_common_consensus_df'.rows]]
    /\ pc' = "done"
    /\ UNCHANGED <<cosmic_all_cosmic70, unique_cosmic_ids, replicate_dir, merged_dir,
                   cell, prefiltered_file, cosmic_prefiltered_df, unique_mutations,
                   consensus_todo, case_id_consensus, cosmic_similarity_consensus_list>>
    /\ UNCHANGED <<inputs, listing, variant_assign, case_ids, output_df, disk,
                   cosmic_all_df, paad_genes>>

\* a cell of the pass raises: the run stops there
AdhocRaise ==
    /\ adhoc_raises
    /\ pc' = "failed"
    /\ UNCHANGED script
    /\ UNCHANGED <<inputs, listing, variant_assign, case_ids, output_df, disk,
                   cosmic_all_df, paad_genes>>

Adhoc ==
    \/ LoadPrefiltered
    \/ FilterAAChange
    \/ UniqueMutations
    \/ ConsensusStart
    \/ ConsensusLoop
    \/ ConsensusWrite
    \/ AdhocRaise

AARowValues ==
    [final_id : {"S1", "S2"}, AAChange_refGene : {".", "G12D", "R1X"}]

PrefilteredColumns == {"Gene_refGene", "AAChange_refGene", "final_id"}

GoodTables ==
    {[readable |-> TRUE, columns |-> PrefilteredColumns, rows |-> t] :
        t \in SeqsUpTo(AARowValues, MaxAARows)}

\* a file read_table cannot load, and tables without one of the columns
BadTables ==
    {[readable |-> FALSE, columns |-> PrefilteredColumns, rows |-> <<>>],
     [readable |-> TRUE, columns |-> {"AAChange_refGene", "final_id"},
      rows |-> <<[final_id |-> "S1", AAChange_refGene |-> "G12D"]>>],
     [readable |-> TRUE, columns |-> {"Gene_refGene", "final_id"},
      rows |-> <<[final_id |-> "S1"]>>],
     [readable |-> TRUE, columns |-> {"Gene_refGene", "AAChange_refGene"},
      rows |-> <<[AAChange_refGene |-> "G12D"]>>]}

\* no call of process_variants is under way
NoCall ==
    /\ variant_dir = <<>>
    /\ focus_variants = <<>>
    /\ focus_is_set = FALSE
    /\ strip_text = <<>>
    /\ process_cosmic = FALSE
    /\ id_updater = None
    /\ listing = <<>>
    /\ variant_assign = <<>>
    /\ case_ids = <<>>
    /\ output_df = EmptyFrame
    /\ disk = NoFile

InitAdhoc ==
    /\ NoCall
    /\ cosmic_all_df = <<>>
    /\ paad_genes = <<>>
    /\ cosmic_all_cosmic70 = [present |-> FALSE, values |-> <<>>]
    /\ unique_cosmic_ids = <<>>
    /\ replicate_dir = <<>>
    /\ merged_dir = <<>>
    /\ cell = 9
    /\ results = [f \in OutputFiles |-> NoFile]
    /\ prefiltered_file \in GoodTables \cup BadTables
    /\ NoAdhoc
    /\ pc = "cell9"

SpecAdhoc == InitAdhoc /\ [][Adhoc]_vars

----------------------------------------------------------------------------
(* The whole script: five matrices, one after another *)

\* '_processed_variants.tsv.bz2', abbreviated
merged_strip_text == <<"_", "v">>

output_file_pasted(c) ==
    CASE c = 4 -> "oncoprint_replicates"
      [] c = 5 -> "oncoprint_replicates"
      [] c = 7 -> "cosmic_similarity_replicates"
      [] c = 8 -> "cosmic_similarity_merged"

\* the file the cell writes its matrix to
output_file(c) ==
    CASE c = 4 -> "oncoprint_replicates"
      [] c = 5 -> "oncoprint_merged"
      [] c = 7 -> "cosmic_similarity_replicates"
      [] c = 8 -> "cosmic_similarity_merged"

\* the cell that runs once the cell has written its file
next_cell(c) ==
    CASE c = 4 -> "cell5"
      [] c = 5 -> "cell6"
      [] c = 7 -> "cell8"
      [] c = 8 -> "cell9"

\* the to_csv of cells 4, 5, 7 and 8
WriteResult ==
    /\ pc = "returned"
    /\ results' = [results EXCEPT ![output_file(cell)] =
                      [written |-> TRUE, header |-> output_df.columns,
                       rows |-> output_df.rows]]
    /\ pc' = next_cell(cell)
    /\ UNCHANGED <<cosmic_all_cosmic70, unique_cosmic_ids, replicate_dir, merged_dir,
                   cell, adhoc>>
    /\ UNCHANGED <<inputs, listing, variant_assign, case_ids, output_df, disk,
                   cosmic_all_df, paad_genes>>

\* cell 5: process_variants(merged_file_path, paad_genes, merged_strip_text,
\* process_cosmic=False, id_updater=None)
MergedCall ==
    /\ pc = "cell5"
    /\ cell' = 5
    /\ variant_dir' = merged_dir
    /\ focus_variants' = paad_genes
    /\ focus_is_set' = FALSE
    /\ strip_text' = merged_strip_text
    /\ process_cosmic' = FALSE
    /\ id_updater' = None
    /\ listing' \in Perms(DOMAIN merged_dir)
    /\ variant_assign' = <<>>
    /\ case_ids' = <<>>
    /\ pc' = "loop"
    /\ UNCHANGED <<cosmic_all_cosmic70, unique_cosmic_ids, replicate_dir, merged_dir,
                   results, adhoc>>
    /\ UNCHANGED <<output_df, disk, cosmic_all_df, paad_genes>>

\* cell 6: unique_cosmic_ids = set(cosmic_all_df['cosmic70'])
UniqueCosmicIds ==
    /\ pc = "cell6"
    /\ cosmic_all_cosmic70.present
    /\ unique_cosmic_ids' \in Perms(Range(cosmic_all_cosmic70.values))
    /\ pc' = "cell7"
    /\ UNCHANGED <<cosmic_all_cosmic70, replicate_dir, merged_dir, cell, results, adhoc>>
    /\ UNCHANGED <<inputs, listing, variant_assign, case_ids, output_df, disk,
                   cosmic_all_df, paad_genes>>

\* cell 6 on an aggregate table without cosmic70: KeyError
UniqueCosmicIdsRaise ==
    /\ pc = "cell6"
    /\ ~cosmic_all_cosmic70.present
    /\ pc' = "failed"
    /\ UNCHANGED script
    /\ UNCHANGED <<inputs, listing, variant_assign, case_ids, output_df, disk,
                   cosmic_all_df, paad_genes>>

\* cell 7: process_variants(replicate_file_path, unique_cosmic_ids,
\* replicate_strip_text, process_cosmic=True, id_updater=None)
ReplicateCosmicCall ==
    /\ pc = "cell7"
    /\ cell' = 7
    /\ variant_dir' = replicate_dir
    /\ focus_variants' = unique_cosmic_ids
    /\ focus_is_set' = TRUE
    /\ strip_text' = replicate_strip_text
    /\ process_cosmic' = TRUE
    /\ id_updater' = None
    /\ listing' \in Perms(DOMAIN replicate_dir)
    /\ variant_assign' = <<>>
    /\ case_ids' = <<>>
    /\ pc' = "loop"
    /\ UNCHANGED <<cosmic_all_cosmic70, unique_cosmic_ids, replicate_dir, merged_dir,
                   results, adhoc>>
    /\ UNCHANGED <<output_df, disk, cosmic_all_df, paad_genes>>

\* cell 8: process_variants(merged_file_path, unique_cosmic_ids, merged_strip_text,
\* process_cosmic=True, id_updater=None)
MergedCosmicCall ==
    /\ pc = "cell8"
    /\ cell' = 8
    /\ variant_dir' = merged_dir
    /\ focus_variants' = unique_cosmic_ids
    /\ focus_is_set' = TRUE
    /\ strip_text' = merged_strip_text
    /\ process_cosmic' = TRUE
    /\ id_updater' = None
    /\ listing' \in Perms(DOMAIN merged_dir)
    /\ variant_assign' = <<>>
    /\ case_ids' = <<>>
    /\ pc' = "loop"
    /\ UNCHANGED <<cosmic_all_cosmic70, unique_cosmic_ids, replicate_dir, merged_dir,
                   results, adhoc>>
    /\ UNCHANGED <<output_df, disk, cosmic_all_df, paad_genes>>

NextRun ==
    \/ LoadGenes
    \/ ReplicateCall
    \/ MergedCall
    \/ UniqueCosmicIds
    \/ UniqueCosmicIdsRaise
    \/ ReplicateCosmicCall
    \/ MergedCosmicCall
    \/ LoopBody
    \/ LoopRaise
    \/ Return
    \/ WriteResult
    \/ Adhoc

MergedFileNames == {Str_A_v}

RunFiles ==
    {[readable |-> TRUE, columns |-> AllColumns,
      rows |-> <<[cosmic70 |-> "COSM1", Gene_refGene |-> "KRAS"]>>],
     [readable |-> FALSE, columns |-> AllColumns, rows |-> <<>>]}

\* the aggregate table: its Gene.refGene column and its cosmic70 column
RunAggregates ==
    {[genes |-> <<>>, cosmic70 |-> [present |-> TRUE, values |-> <<>>]],
     [genes |-> <<"KRAS">>, cosmic70 |-> [present |-> TRUE, values |-> <<"COSM1">>]],
     [genes |-> <<"KRAS", "ATM">>,
      cosmic70 |-> [present |-> TRUE, values |-> <<"COSM1", "COSM2">>]],
     [genes |-> <<"KRAS">>, cosmic70 |-> [present |-> FALSE, values |-> <<>>]]}

RunTables ==
    {[readable |-> TRUE, columns |-> PrefilteredColumns,
      rows |-> <<[final_id |-> "S1", AAChange_refGene |-> "G12D"],
                 [final_id |-> "S2", AAChange_refGene |-> "."]>>],
     [readable |-> FALSE, columns |-> PrefilteredColumns, rows |-> <<>>],
     [readable |-> TRUE, columns |-> {"Gene_refGene", "AAChange_refGene"},
      rows |-> <<[AAChange_refGene |-> "G12D"]>>]}

InitRun ==
    /\ \E agg \in RunAggregates :
          cosmic_all_df = agg.genes /\ cosmic_all_cosmic70 = agg.cosmic70
    /\ replicate_dir \in Directories(ReplicateFileNames, RunFiles)
    /\ merged_dir \in Directories(MergedFileNames, RunFiles)
    /\ prefiltered_file \in RunTables
    /\ variant_dir = replicate_dir
    /\ focus_variants = <<>>
    /\ focus_is_set = FALSE
    /\ strip_text = <<>>
    /\ process_cosmic = FALSE
    /\ id_updater = None
    /\ listing = <<>>
    /\ variant_assign = <<>>
    /\ case_ids = <<>>
    /\ output_df = EmptyFrame
    /\ disk = NoFile
    /\ paad_genes = <<>>
    /\ unique_cosmic_ids = <<>>
    /\ cell = 4
    /\ results = [f \in OutputFiles |-> NoFile]
    /\ NoAdhoc
    /\ pc = "start"

SpecRun == InitRun /\ [][NextRun]_vars

----------------------------------------------------------------------------
(* What the claims speak of *)

Present == IF process_cosmic THEN 1 ELSE "MUT;"
Absent == IF process_cosmic THEN 0 ELSE ""

RelevantColumn == IF process_cosmic THEN "cosmic70" ELSE "Gene_refGene"

\* F is in the relevant column of a row of the file that carries a COSMIC annotation
OccursOnCosmicRow(F, file) ==
    \E k \in DOMAIN file.rows :
        file.rows[k].cosmic70 # "." /\ file.rows[k][RelevantColumn] = F

\* F is in the relevant column of some row of the file
OccursOnAnyRow(F, file) ==
    \E k \in DOMAIN file.rows : file.rows[k][RelevantColumn] = F

Membership(file) ==
    [i \in DOMAIN focus_variants |->
        IF OccursOnCosmicRow(focus_variants[i], file) THEN Present ELSE Absent]

Files == DOMAIN variant_dir

DerivedId(f) == sample_id(f, strip_text, id_updater)

Built == pc \in {"returned", "written"}

\* the rows of the returned matrix that the file f accounts for
RowsOf(f) ==
    {k \in DOMAIN output_df.rows :
        /\ output_df.rows[k].id = DerivedId(f)
        /\ output_df.rows[k].vals = Membership(variant_dir[f])}

NoCosmicRows(file) == \A k \in DOMAIN file.rows : file.rows[k].cosmic70 = "."

----------------------------------------------------------------------------
(* C1: in the returned matrix every file has a row labelled with its sample *)
(* id whose cell at column F is the present value exactly when F occurs in  *)
(* the relevant column of a row of that file whose cosmic70 is not '.', and *)
(* the absent value otherwise; every row is such a row; a feature that      *)
(* occurs in no file has an all-absent column.                              *)
C1_CellIffOccursOnCosmicRow ==
    Built =>
        /\ \A f \in Files : RowsOf(f) # {}
        /\ \A k \in DOMAIN output_df.rows : \E f \in Files : k \in RowsOf(f)
        /\ \A i \in DOMAIN focus_variants :
              (\A f \in Files : ~OccursOnCosmicRow(focus_variants[i], variant_dir[f]))
              => \A k \in DOMAIN output_df.rows : output_df.rows[k].vals[i] = Absent

C1_Witness ==
    /\ pc = "written"
    /\ \E f \in Files : \E i \in DOMAIN focus_variants :
          /\ OccursOnCosmicRow(focus_variants[i], variant_dir[f])
          /\ \E k \in RowsOf(f) : disk.rows[k].vals[i] = Present
    /\ \E f \in Files : \E i \in DOMAIN focus_variants :
          /\ OccursOnAnyRow(focus_variants[i], variant_dir[f])
          /\ ~OccursOnCosmicRow(focus_variants[i], variant_dir[f])
          /\ \E k \in RowsOf(f) : disk.rows[k].vals[i] = Absent

(* C2 as stated: for every file whose relevant column contains F on any row, *)
(* a row labelled with the file's sample id has the present value at F.      *)
C2_MarkedWhenOnAnyRow ==
    Built =>
        \A f \in Files : \A i \in DOMAIN focus_variants :
            OccursOnAnyRow(focus_variants[i], variant_dir[f])
            => \E k \in DOMAIN output_df.rows :
                  /\ output_df.rows[k].id = DerivedId(f)
                  /\ output_df.rows[k].vals[i] = Present

(* C2 amended: for every file whose relevant column contains F on a row     *)
(* whose cosmic70 is not '.', the row recorded for that file, labelled with  *)
(* its sample id, has the present value at F.                                *)
C2_MarkedWhenOnCosmicRow ==
    Built =>
        \A f \in Files : \A i \in DOMAIN focus_variants :
            OccursOnCosmicRow(focus_variants[i], variant_dir[f])
            => \E k \in DOMAIN output_df.rows :
                  /\ output_df.rows[k].id = DerivedId(f)
                  /\ output_df.rows[k].vals[i] = Present

\* two files, one with KRAS on a COSMIC row and one without, features KRAS, ATM
C2_Witness ==
    /\ pc = "written"
    /\ ~process_cosmic
    /\ focus_variants = <<"KRAS", "ATM">>
    /\ Cardinality(Files) = 2
    /\ \E f, g \in Files :
          /\ OccursOnCosmicRow("KRAS", variant_dir[f])
          /\ ~OccursOnAnyRow("KRAS", variant_dir[g])
          /\ disk.rows[1].id # disk.rows[2].id
          /\ \E k \in 1..2 :
                /\ disk.rows[k].id = DerivedId(f)
                /\ disk.rows[k].vals = <<"MUT;", "">>
                /\ disk.rows[3 - k].vals = <<"", "">>

(* C3 as stated: the matrix has as many rows as there are distinct derived  *)
(* sample ids and no id labels two rows.                                    *)
C3_OneRowPerDistinctId ==
    Built =>
        /\ Len(output_df.rows) = Cardinality({DerivedId(f) : f \in Files})
        /\ \A a, b \in DOMAIN output_df.rows :
              a # b => output_df.rows[a].id # output_df.rows[b].id

(* C4: the matrix has one column per element of the feature list, in the    *)
(* order of the list, and the i-th value of each row is the membership      *)
(* result of the i-th feature for the file the row comes from.              *)
C4_ColumnsAreTheFeatureList ==
    Built =>
        /\ output_df.columns = focus_variants
        /\ \A k \in DOMAIN output_df.rows :
              /\ Len(output_df.rows[k].vals) = Len(focus_variants)
              /\ \E f \in Files :
                    /\ output_df.rows[k].id = DerivedId(f)
                    /\ \A i \in DOMAIN output_df.columns :
                          output_df.rows[k].vals[i] = Present
                          <=> OccursOnCosmicRow(output_df.columns[i], variant_dir[f])

\* two different features, one present and one absent in the same row
C4_Witness ==
    /\ pc = "written"
    /\ Len(disk.header) = 2
    /\ disk.header[1] # disk.header[2]
    /\ \E k \in DOMAIN disk.rows :
          disk.rows[k].vals[1] = Absent /\ disk.rows[k].vals[2] = Present

(* C8: when the matrix is returned it has a row for every file of the       *)
(* directory, and a file with no row carrying a COSMIC annotation has a row  *)
(* labelled with its sample id whose cells are all the absent value.         *)
C8_EveryFileContributesARow ==
    Built =>
        /\ Len(output_df.rows) = Cardinality(Files)
        /\ \A f \in Files :
              NoCosmicRows(variant_dir[f])
              => \E k \in DOMAIN output_df.rows :
                    /\ output_df.rows[k].id = DerivedId(f)
                    /\ \A i \in DOMAIN focus_variants : output_df.rows[k].vals[i] = Absent

\* a file with no rows at all beside a file with a COSMIC row
C8_Witness ==
    /\ pc = "written"
    /\ focus_variants # <<>>
    /\ \E f, g \in Files :
          /\ variant_dir[f].rows = <<>>
          /\ ~NoCosmicRows(variant_dir[g])
    /\ Len(disk.rows) = 2

(* C9 as stated: a file that cannot be read, a file lacking cosmic70 (or    *)
(* Gene.refGene in gene mode), or an empty directory: no matrix is returned  *)
(* and no output file is written.                                            *)
Unreadable(file) == ~file.readable

LacksExpectedColumn(file) ==
    \/ "cosmic70" \notin file.columns
    \/ ~process_cosmic /\ "Gene_refGene" \notin file.columns

C9_BadInputOrEmptyDirectoryAborts ==
    (\/ Files = {}
     \/ \E f \in Files : Unreadable(variant_dir[f]) \/ LacksExpectedColumn(variant_dir[f]))
    => ~Built /\ ~disk.written

(* C9 amended: a file that cannot be read, a file lacking cosmic70, or (in  *)
(* gene mode with a non-empty feature list) a file lacking Gene.refGene:    *)
(* the loop never completes, no matrix is returned and no output file is     *)
(* written; an empty directory does not fail: a matrix with no rows is       *)
(* returned and a header-only file is written.                               *)
C9_BadFileAborts ==
    /\ (\E f \in Files :
           \/ Unreadable(variant_dir[f])
           \/ "cosmic70" \notin variant_dir[f].columns
           \/ /\ ~process_cosmic
              /\ focus_variants # <<>>
              /\ "Gene_refGene" \notin variant_dir[f].columns)
       => ~Built /\ ~disk.written /\ ~(pc = "loop" /\ listing = <<>>)
    /\ Files = {} =>
          /\ pc # "failed"
          /\ Built => output_df = [columns |-> focus_variants, rows |-> <<>>]
          /\ pc = "written" =>
                disk = [written |-> TRUE, header |-> focus_variants, rows |-> <<>>]

\* the run failed on the second file, after a good first one
C9_Witness ==
    /\ pc = "failed"
    /\ Len(case_ids) = 1
    /\ Unreadable(variant_dir[Head(listing)])
    /\ ~disk.written

(* C10: the rows of the returned matrix are in non-decreasing order of      *)
(* sample id, and the rows are the (sample id, values) pairs accumulated in  *)
(* the loop, each pair kept whole.                                           *)
Pairs(ids, data) == [k \in DOMAIN ids |-> [id |-> ids[k], vals |-> data[k]]]

Count(row, rows) == Cardinality({k \in DOMAIN rows : rows[k] = row})

C10_SortedRowsKeepTheirValues ==
    Built =>
        /\ \A a, b \in DOMAIN output_df.rows :
              a < b => ~str_lt(output_df.rows[b].id, output_df.rows[a].id)
        /\ Len(output_df.rows) = Len(case_ids)
        /\ \A k \in DOMAIN case_ids :
              /\ variant_assign[k] \in {Membership(variant_dir[f]) :
                                          f \in {g \in Files : DerivedId(g) = case_ids[k]}}
              /\ Count(Pairs(case_ids, variant_assign)[k], output_df.rows)
                   = Count(Pairs(case_ids, variant_assign)[k], Pairs(case_ids, variant_assign))

\* the listing came in descending order and the two rows differ in their values
C10_Witness ==
    /\ pc = "written"
    /\ Len(case_ids) = 2
    /\ str_lt(case_ids[2], case_ids[1])
    /\ variant_assign[1] # variant_assign[2]
    /\ disk.rows[1].vals = variant_assign[2]

(* C5 as stated: the gene feature list, the top_n most frequent genes       *)
(* followed by the allow-list, contains no gene twice, and so no column of   *)
(* the gene matrix written from it is repeated.                              *)
C5_NoRepeatedFeature ==
    /\ pc # "start" => IsSet(paad_genes)
    /\ disk.written => IsSet(disk.header)

(* C6 as stated: for every file name that ends with strip_text, the sample  *)
(* id is the name with that suffix removed, and with a remapping table the   *)
(* id is the suffix-stripped name with the token before its first '_'        *)
(* replaced by the table's value.                                            *)
endswith(s, p) ==
    Len(p) <= Len(s) /\ SubSeq(s, Len(s) - Len(p) + 1, Len(s)) = p

SuffixRemoved(f) == SubSeq(f, 1, Len(f) - Len(strip_text))

ClaimedId(f) ==
    IF id_updater.is_none
    THEN SuffixRemoved(f)
    ELSE id_updater.dict[split_first(SuffixRemoved(f))]
            \o SubSeq(SuffixRemoved(f), Len(split_first(SuffixRemoved(f))) + 1,
                      Len(SuffixRemoved(f)))

C6_IdIsNameWithoutSuffix ==
    Built =>
        \A f \in Files :
            endswith(f, strip_text)
            => \E k \in DOMAIN output_df.rows : output_df.rows[k].id = ClaimedId(f)

(* C7 as stated: a run on unchanged inputs writes an output file identical  *)
(* to the one the previous run wrote.                                        *)
C7_RerunWritesTheSameFile ==
    [][(pc = "returned" /\ disk.written) => disk' = disk]_vars

(* C11: the matrix of the amino-acid-change pass has one row per distinct   *)
(* final_id and one column per distinct AAChange.refGene of the rows of the  *)
(* prefiltered table whose AAChange.refGene is not '.'; no row identifier    *)
(* and no column is repeated; the cell at (sample, mutation) is 1 exactly    *)
(* when such a row has that final_id and that AAChange.refGene, and 0        *)
(* otherwise; every row and every column holds a 1; the file written is      *)
(* this matrix.                                                              *)
Restricted ==
    {prefiltered_file.rows[k] : k \in
        {j \in DOMAIN prefiltered_file.rows :
            prefiltered_file.rows[j].AAChange_refGene # "."}}

C11_OneRowPerIdOneColumnPerMutation ==
    pc = "done" =>
        LET df == cosmic_common_consensus_df
        IN  /\ {df.rows[k].id : k \in DOMAIN df.rows} = {r.final_id : r \in Restricted}
            /\ Len(df.rows) = Cardinality({r.final_id : r \in Restricted})
            /\ Range(df.columns) = {r.AAChange_refGene : r \in Restricted}
            /\ Len(df.columns) = Cardinality({r.AAChange_refGene : r \in Restricted})
            /\ \A k \in DOMAIN df.rows :
                  /\ Len(df.rows[k].vals) = Len(df.columns)
                  /\ \A i \in DOMAIN df.columns :
                        df.rows[k].vals[i] =
                            IF [final_id |-> df.rows[k].id,
                                AAChange_refGene |-> df.columns[i]] \in Restricted
                            THEN 1 ELSE 0
                  /\ \E i \in DOMAIN df.columns : df.rows[k].vals[i] = 1
            /\ \A i \in DOMAIN df.columns : \E k \in DOMAIN df.rows : df.rows[k].vals[i] = 1
            /\ results["cosmic_prefiltered_similarity_merged"] =
                  [written |-> TRUE, header |-> df.columns, rows |-> df.rows]

\* two samples, two mutations, a 0 cell, and a row of the table with '.'
C11_Witness ==
    /\ pc = "done"
    /\ Len(cosmic_common_consensus_df.rows) = 2
    /\ Len(cosmic_common_consensus_df.columns) = 2
    /\ \E k, i \in 1..2 : cosmic_common_consensus_df.rows[k].vals[i] = 0
    /\ \E j \in DOMAIN prefiltered_file.rows :
          prefiltered_file.rows[j].AAChange_refGene = "."

(* C12: the five output files are written one after another in the order    *)
(* gene-replicates, gene-merged, COSMIC-replicates, COSMIC-merged,           *)
(* amino-acid-change: a file is written only when the files before it are    *)
(* written, a file once written is not touched again, each step writes at    *)
(* most the next file and writes the matrix just built for it, and after a   *)
(* failure nothing more is written, so the files of the failed build and of  *)
(* the builds after it are never written.                                    *)
OutputOrder ==
    <<"oncoprint_replicates", "oncoprint_merged", "cosmic_similarity_replicates",
      "cosmic_similarity_merged", "cosmic_prefiltered_similarity_merged">>

IsWritten(k) == results[OutputOrder[k]].written

\* the build the script is at
BuildAt ==
    CASE pc \in {"start", "cell4"} -> 1
      [] pc = "cell5" -> 2
      [] pc \in {"cell6", "cell7"} -> 3
      [] pc = "cell8" -> 4
      [] pc \in {"cell9", "cell11", "cell12", "cell13", "consensus", "done"} -> 5
      [] OTHER -> IF cell = 4 THEN 1 ELSE IF cell = 5 THEN 2
                  ELSE IF cell = 7 THEN 3 ELSE 4

BuiltMatrix(k) ==
    IF k = 5
    THEN /\ pc = "consensus"
         /\ consensus_todo = <<>>
         /\ results'[OutputOrder[k]].header = unique_mutations
         /\ results'[OutputOrder[k]].rows =
               Pairs(case_id_consensus, cosmic_similarity_consensus_list)
    ELSE /\ pc = "returned"
         /\ BuildAt = k
         /\ output_df.columns = (IF k \in {1, 2} THEN paad_genes ELSE unique_cosmic_ids)
         /\ Len(output_df.rows) =
               Cardinality(DOMAIN (IF k \in {1, 3} THEN replicate_dir ELSE merged_dir))
         /\ results'[OutputOrder[k]] =
               [written |-> TRUE, header |-> output_df.columns, rows |-> output_df.rows]

C12_OutputsWrittenInOrder ==
    [][/\ \A k \in 1..5 : IsWritten(k)' => \A j \in 1..(k - 1) : IsWritten(j)'
       /\ \A k \in 1..5 : IsWritten(k) => results'[OutputOrder[k]] = results[OutputOrder[k]]
       /\ \A k \in 1..5 :
             (~IsWritten(k) /\ IsWritten(k)')
             => /\ BuiltMatrix(k)
                /\ \A j \in 1..5 : j # k => results'[OutputOrder[j]] = results[OutputOrder[j]]
       /\ pc = "failed" => results' = results
       /\ pc' = "failed" =>
             /\ results' = results
             /\ \A k \in BuildAt..5 : ~IsWritten(k)
      ]_vars

\* the fifth build failed with the four files before it written
C12_Witness ==
    /\ pc = "failed"
    /\ \A k \in 1..4 : IsWritten(k)
    /\ ~IsWritten(5)
    /\ Len(results["oncoprint_replicates"].rows) = 2

====
